---- MODULE Spec2Model ----
(***************************************************************************)
(* Model of brunosps/useCase.ts: the Result value and its factories, the   *)
(* and_then chaining protocol, the ResultPromise wrapper and the UseCase   *)
(* orchestration, run on a model of the JavaScript job queue (promise      *)
(* reactions run one at a time, first in first out).                       *)
(***************************************************************************)
EXTENDS Integers, Sequences, FiniteSets, TLC

(***************************************************************************)
(* Bounds of the model.                                                    *)
(***************************************************************************)
\* Number of and_then steps chained on the first wrapper.
MaxChain == 2
\* Number of observation hooks registered on one wrapper.
MaxHooks == 1
\* Number of hooks registered on one wrapper where their order is observed.
MaxOrderedHooks == 2

(***************************************************************************)
(* JavaScript values.  Every value is a record of one shape; id tells two  *)
(* objects with the same contents apart.                                   *)
(***************************************************************************)
JsString(s) == [kind |-> "string", str |-> s, num |-> 0, id |-> ""]
JsNumber(n) == [kind |-> "number", str |-> "", num |-> n, id |-> ""]
JsUndefined == [kind |-> "undefined", str |-> "", num |-> 0, id |-> ""]
JsNull == [kind |-> "null", str |-> "", num |-> 0, id |-> ""]
\* An Error object with its message.
JsError(i, m) == [kind |-> "Error", str |-> m, num |-> 0, id |-> i]
\* The literal {} .
EmptyObject == [kind |-> "object", str |-> "", num |-> 0, id |-> "{}"]
\* An object without toString and valueOf, such as Object.create(null).
BareObject == [kind |-> "bareObject", str |-> "", num |-> 0, id |-> "bare"]
\* A plain data object.
JsObject(i) == [kind |-> "object", str |-> "", num |-> 0, id |-> i]

\* An optional argument: given, or left out (undefined).
None == [some |-> FALSE, val |-> JsUndefined]
Some(x) == [some |-> TRUE, val |-> x]
\* a ?? b on an optional argument.
OrElse(o, d) == IF o.some THEN o.val ELSE d
\* a || b in the place of a ?? b : every falsy value gives way to b.
Coalesce_falsy(v, d) ==
  IF v.kind \in {"undefined", "null"} \/ v = JsNumber(0) \/ v = JsString("") THEN d ELSE v

\* a ?? b on a value.
Coalesce(v, d) == IF v.kind \in {"undefined", "null"} THEN d ELSE v

\* The decimal digits of a natural number.
Digit(d) ==
  CASE d = 0 -> "0" [] d = 1 -> "1" [] d = 2 -> "2" [] d = 3 -> "3"
    [] d = 4 -> "4" [] d = 5 -> "5" [] d = 6 -> "6" [] d = 7 -> "7"
    [] d = 8 -> "8" [] d = 9 -> "9"

RECURSIVE NatToString(_)
NatToString(n) == IF n < 10 THEN Digit(n) ELSE NatToString(n \div 10) \o Digit(n % 10)

\* String(v) throws a TypeError when v has no conversion to a primitive.
StringThrows(v) == v.kind = "bareObject"

\* String(v) where it returns.
String(v) ==
  CASE v.kind = "string" -> v.str
    [] v.kind = "number" -> IF v.num < 0 THEN "-" \o NatToString(0 - v.num)
                                          ELSE NatToString(v.num)
    [] v.kind = "undefined" -> "undefined"
    [] v.kind = "null" -> "null"
    [] v.kind = "Error" -> "Error: " \o v.str
    [] v.kind = "object" -> "[object Object]"

\* error instanceof Error
InstanceOfError(v) == v.kind = "Error"

\* The TypeError String(v) throws, and the one a property read on undefined throws.
ConvertTypeError == JsError("TypeError", "Cannot convert object to primitive value")
ReadTypeError == JsError("TypeError", "Cannot read properties of undefined")

(***************************************************************************)
(* Result and its factories.                                               *)
(***************************************************************************)
EmptyContext == [k \in {} |-> JsUndefined]

\* Result.constructor
Result(resultType, isSuccess, error, data, context, useCaseClass) ==
  [resultType |-> resultType,
   isSuccess |-> isSuccess,
   data |-> Coalesce(data, EmptyObject),
   error |-> Coalesce(error, EmptyObject),
   useCaseClass |-> OrElse(useCaseClass, ""),
   context |-> OrElse(context, EmptyContext)]

Success(value, context, useCaseClass) ==
  Result("SUCCESS", TRUE, JsUndefined, value, context, useCaseClass)

\* Failure that ignores the failure type it is given.
Failure_fixedType(error, failureType, context, useCaseClass) ==
  Result("FAILURE", FALSE, error, JsUndefined, context, useCaseClass)

Failure(error, failureType, context, useCaseClass) ==
  Result(OrElse(failureType, "FAILURE"), FALSE, error, JsUndefined, context, useCaseClass)

\* The accessors of Result.
getValue(r) == r.data
isSuccess(r) == r.isSuccess
getType(r) == r.resultType
getError(r) == r.error

\* isFailure that answers for isSuccess.
isFailure_inverted(r) == r.isSuccess

isFailure(r) == ~r.isSuccess

\* { ...a, ...b }
Spread(a, b) ==
  [k \in DOMAIN a \cup DOMAIN b |-> IF k \in DOMAIN b THEN b[k] ELSE a[k]]

\* mergeContext with the spread the other way round: the receiver's keys win.
mergeContext_receiverWins(result, mergeable) ==
  Result(result.resultType, result.isSuccess, result.error, result.data,
         Some(Spread(result.context, mergeable.context)), Some(result.useCaseClass))

\* mergeContext that keeps the receiver's useCaseClass.
mergeContext_receiverLabel(result, mergeable) ==
  Result(result.resultType, result.isSuccess, result.error, result.data,
         Some(Spread(mergeable.context, result.context)), Some(mergeable.useCaseClass))

\* Result.mergeContext
mergeContext(result, mergeable) ==
  Result(result.resultType, result.isSuccess, result.error, result.data,
         Some(Spread(mergeable.context, result.context)), Some(result.useCaseClass))

\* The first branch of and_then without the failure type: Failure's default applies.
and_then_failure_defaultType(self) ==
  Failure(self.error, None, Some(self.context), Some(self.useCaseClass))

\* The first branch of and_then: the receiver is a failure.
and_then_failure(self) ==
  Failure(self.error, Some(self.resultType), Some(self.context), Some(self.useCaseClass))

\* The normalisation with error.message for the message: a value that is no
\* Error has none.
NormalizeError_message(error) ==
  IF InstanceOfError(error) THEN error ELSE JsError("new", "")

\* error instanceof Error ? error : new Error(String(error)), where String returns.
NormalizeError(error) ==
  IF InstanceOfError(error) THEN error ELSE JsError("new", String(error))

\* The catch block of and_then, where it returns.
and_then_catch(self, error) ==
  Failure(NormalizeError(error), Some("UNEXPECTED_ERROR"),
          Some(Spread(self.context, [k \in {"rawError"} |-> error])),
          Some(self.useCaseClass))

\* The catch block throws itself when String(error) does.
CatchThrows(error) == ~InstanceOfError(error) /\ StringThrows(error)

(***************************************************************************)
(* Context and UseCase.                                                    *)
(***************************************************************************)
\* A function object, such as a method.
JsFunction(i) == [kind |-> "function", str |-> "", num |-> 0, id |-> i]

\* The own enumerable properties of the plain objects of the model, by id.
ObjectProperties(i) ==
  CASE i = "a" -> [k \in {"value"} |-> JsString("initial")]
    [] i = "b" -> [k \in {"value"} |-> JsString("next")]
    [] i = "in1" -> [k \in {"id", "name"} |->
                       IF k = "id" THEN JsString("123") ELSE JsString("Test")]
    [] i = "in2" -> [k \in {"id", "shared"} |->
                       IF k = "id" THEN JsString("123") ELSE JsString("input")]
    [] i = "in3" -> [k \in {"name", "getInput"} |->
                       IF k = "name" THEN JsString("Test") ELSE JsString("mine")]
    [] i = "out1" -> [k \in {"result"} |-> JsString("Success")]
    [] i = "out2" -> [k \in {"result", "shared"} |->
                       IF k = "result" THEN JsString("Success") ELSE JsString("output")]
    [] i = "out3" -> [k \in {"_inputParams"} |-> JsNumber(7)]
    [] OTHER -> EmptyContext

\* The characters of the strings of the model, by index.
StringProperties(s) ==
  CASE s = "test" -> [k \in {"0", "1", "2", "3"} |->
                        IF k = "1" THEN JsString("e")
                        ELSE IF k = "2" THEN JsString("s") ELSE JsString("t")]
    [] s = "" -> EmptyContext

\* What { ...(v || {}) } copies: the own enumerable properties of v, none for a
\* falsy value, a number, an Error or an object without any.
OwnProperties(v) ==
  CASE v.kind = "object" -> ObjectProperties(v.id)
    [] v.kind = "string" -> StringProperties(v.str)
    [] OTHER -> EmptyContext

\* The spread the other way round: input's value wins.
ContextProperties_inputWins(input, data) ==
  Spread(OwnProperties(data), OwnProperties(input))

\* { ...(input || {}), ...(data || {}) }
ContextProperties(input, data) ==
  Spread(OwnProperties(input), OwnProperties(data))

\* The names `key in this` holds for when the constructor starts to copy: the
\* two fields it has just assigned, the members of Context.prototype and those
\* of Object.prototype.
ContextMembers ==
  {"_inputParams", "_outputParams", "getInput", "getOutput", "constructor",
   "toString", "toLocaleString", "valueOf", "hasOwnProperty", "isPrototypeOf",
   "propertyIsEnumerable", "__proto__"}

\* The constructor without its check: every key is defined on the instance.
KeyInThis_never(accessors, key) == FALSE

\* key in this, on an instance of a subclass that defines the given accessors.
KeyInThis(accessors, key) == key \in ContextMembers \cup DOMAIN accessors

\* Context.constructor run for an instance of a subclass that defines the
\* given accessors: the stored input and output, and the properties it defines
\* on the instance.
SubclassContext(accessors, input, data) ==
  [kind |-> "Context",
   _inputParams |-> Coalesce(input, EmptyObject),
   _outputParams |-> Coalesce(data, EmptyObject),
   accessors |-> accessors,
   props |-> [key \in {k \in DOMAIN ContextProperties(input, data) :
                          ~KeyInThis(accessors, k)} |->
                ContextProperties(input, data)[key]]]

\* Context.constructor for an instance of Context itself.
Context(input, data) == SubclassContext(EmptyContext, input, data)

\* A read of context[key]: a property defined on the instance comes first,
\* then the members the instance had before.
GetProperty(context, key) ==
  IF key \in DOMAIN context.props THEN context.props[key]
  ELSE IF key = "_inputParams" THEN context._inputParams
  ELSE IF key = "_outputParams" THEN context._outputParams
  ELSE IF key \in DOMAIN context.accessors THEN context.accessors[key]
  ELSE IF key \in ContextMembers THEN JsFunction(key)
  ELSE JsUndefined

\* Context.getInput and Context.getOutput: return this._inputParams / _outputParams
getInput(context) == GetProperty(context, "_inputParams")
getOutput(context) == GetProperty(context, "_outputParams")

\* this.constructor.name of the concrete operation.
ClassName == "SuccessUseCase"

\* The failure branch of call with the label of execute's Result left in place.
call_failure_keepLabel(result) ==
  Failure(result.error, Some(result.resultType), Some(result.context),
          Some(result.useCaseClass))

\* UseCase.call, execute resolved to a failure Result.
call_failure(result) ==
  Failure(result.error, Some(result.resultType), Some(result.context), Some(ClassName))

\* The success branch of call with the Context added to the context of
\* execute's Result.
call_success_keepContext(params, result) ==
  Success(result.data,
          Some(Spread(result.context,
                      [k \in {ClassName} |-> Context(params, result.data)])),
          Some(ClassName))

\* UseCase.call, execute resolved to a success Result.
call_success(params, result) ==
  Success(result.data,
          Some([k \in {ClassName} |-> Context(params, result.data)]),
          Some(ClassName))

\* UseCase.call, the catch block where it returns.
call_catch(error) ==
  Failure(NormalizeError(error), Some("UNEXPECTED_ERROR"),
          Some([k \in {"rawError"} |-> error]), Some(ClassName))

\* result.isFailure() on what execute resolved to: a value that is no Result has
\* no such method, and the call throws a TypeError.
IsResult(v) == "resultType" \in DOMAIN v

(***************************************************************************)
(* Inputs.                                                                 *)
(***************************************************************************)
Ctx1 == [k \in {"x"} |-> JsNumber(1)]
Ctx2 == [k \in {"x", "y"} |-> IF k = "x" THEN JsNumber(2) ELSE JsNumber(3)]

\* The Results the first wrapper is built on.
InitialResults ==
  { Success(JsObject("a"), Some(Ctx1), Some("InitialUseCase")),
    Success(JsObject("a"), None, None),
    Failure(JsError("e1", "Test error"), Some("CUSTOM_FAILURE"), Some(Ctx1),
            Some("TestUseCase")) }

\* The Results a callback or execute returns.
NextResults ==
  { Success(JsObject("b"), Some(Ctx2), Some("NextUseCase")),
    Failure(JsError("e2", "Next error"), None, None, None) }

\* The values a callback or execute throws.
Throwables == { JsError("e3", "boom"), JsNumber(42), BareObject }

\* How a callback or execute ends: it returns a Result (ok) or throws a value.
Outcomes == [ok : {TRUE}, val : NextResults] \cup [ok : {FALSE}, val : Throwables]

NoOutcome == [ok |-> TRUE, val |-> JsUndefined]

\* The failure types onFailure is asked to match; None is the default argument.
MatchTypes == { None, Some("CUSTOM_FAILURE") }

Params == JsString("test")
\* The input call is given: a value, or none.
ParamsSet == { Params, JsUndefined }

\* The Results execute resolves to.
ExecuteResults ==
  { Success(JsObject("b"), Some(Ctx2), Some("NextUseCase")),
    Failure(JsError("e2", "Next error"), Some("CUSTOM_FAILURE"), Some(Ctx1),
            Some("InnerUseCase")) }

\* How execute ends: it resolves to a Result, or throws or rejects with a value.
ExecuteOutcomes == [ok : {TRUE}, val : ExecuteResults] \cup [ok : {FALSE}, val : Throwables]

\* What execute does with its input: given none it resolves to a success.
ExecuteOutcomesFor(params) ==
  IF params = JsUndefined THEN {o \in ExecuteOutcomes : o.ok /\ o.val.isSuccess}
  ELSE ExecuteOutcomes

AbstractError == JsError("abstract", "Cannot call static method on abstract UseCase class")

Wrappers == 0..MaxChain
Steps == 0..(MaxChain - 1)

(***************************************************************************)
(* State.                                                                  *)
(***************************************************************************)
VARIABLES
  origin,     \* how the promise of wrapper 0 came about
  pst,        \* pst[k]: state of the promise wrapper k holds
  pval,       \* pval[k]: the Result it fulfilled with, or the reason it rejected with
  reactions,  \* reactions[k]: the reactions registered on it while pending, in order
  jobs,       \* the job queue of the runtime
  fnst,       \* fnst[k]: the callback given to and_then on wrapper k
  fnout,      \* fnout[k]: what that callback does
  ast,        \* ast[k]: state of the promise Result.and_then returned in step k
  aval,       \* aval[k]: its Result, or its rejection reason
  adoptReg,   \* adoptReg[k]: promise k+1 waits for that promise to settle
  exst,       \* execute of the use case
  exout,      \* what execute does
  hooks,      \* hooks[k]: the hooks registered on wrapper k, in order
  hookDone,   \* hookDone[k]: the hooks of wrapper k whose reaction has run
  awaitSt,    \* awaitSt[k]: the client's toResult() / await on wrapper k, and the
              \*   number of hooks registered on k when it was requested
  calls,      \* the invocations of callbacks, hooks and execute, in order
  made        \* the last value the client built or the last method it called on a
              \*   Result at hand, with the arguments and the outcome

vars == <<origin, pst, pval, reactions, jobs, fnst, fnout, ast, aval, adoptReg,
          exst, exout, hooks, hookDone, awaitSt, calls, made>>

NoValue == JsUndefined

\* Nothing built or called yet.
NotMade == [op |-> "none"]

\* A reaction registered with promise.then .
Reaction(kind, m, type, i) == [kind |-> kind, m |-> m, type |-> type, i |-> i]
NoReaction == Reaction("none", "", None, 0)

\* A registered hook: its reaction, the wrapper the registering call returned,
\* and whether and_then had been called on the wrapper before.
Hook(r, ret, chained) ==
  [m |-> r.m, type |-> r.type, i |-> r.i, ret |-> ret, chained |-> chained]

Job(t, k, r) == [t |-> t, k |-> k, r |-> r]

\* One invocation of user code.
Call(who, k, i, a1, a2) == [who |-> who, k |-> k, i |-> i, a1 |-> a1, a2 |-> a2]

\* Wrapper 0 holds a promise resolved with a Result, the promise of call on an
\* instance, or the promise of the static call, on a concrete class or on
\* UseCase itself.
InitFrom(origins) ==
  /\ origin \in origins
  /\ \E r \in InitialResults :
       /\ pst = [k \in Wrappers |->
                   IF k = 0 /\ origin \in {"resolved", "observed"} THEN "fulfilled"
                   ELSE "none"]
       /\ pval = [k \in Wrappers |->
                   IF k = 0 /\ origin \in {"resolved", "observed"} THEN r ELSE NoValue]
  /\ reactions = [k \in Wrappers |-> << >>]
  /\ jobs = << >>
  /\ fnst = [k \in Steps |-> "notInvoked"]
  /\ fnout = [k \in Steps |-> NoOutcome]
  /\ ast = [k \in Steps |-> "none"]
  /\ aval = [k \in Steps |-> NoValue]
  /\ adoptReg = [k \in Steps |-> FALSE]
  /\ exst = "notCalled"
  /\ exout = NoOutcome
  /\ hooks = [k \in Wrappers |-> << >>]
  /\ hookDone = [k \in Wrappers |-> {}]
  /\ awaitSt = [k \in Wrappers |-> [st |-> "none", hooks |-> 0]]
  /\ calls = << >>
  /\ made = NotMade

Init == InitFrom({"resolved", "usecase", "static", "abstract"})

(***************************************************************************)
(* The runtime: promise.then and the settling of a promise.                *)
(***************************************************************************)
\* A promise that queues its reactions last registered first.
ReactionJobs_reversed(k, rs) ==
  [n \in 1..Len(rs) |-> Job("reaction", k, rs[Len(rs) + 1 - n])]

\* The jobs a promise queues for its reactions when it settles.
ReactionJobs(k, rs) == [n \in 1..Len(rs) |-> Job("reaction", k, rs[n])]

\* promise.then(reaction) on the promise of wrapper k, with q the job queue so
\* far: a pending promise keeps the reaction, a settled one queues it at once.
ThenQueue(k, r, q) == IF pst[k] = "pending" THEN q ELSE Append(q, Job("reaction", k, r))
ThenReactions(k, r) ==
  IF pst[k] = "pending" THEN [reactions EXCEPT ![k] = Append(@, r)] ELSE reactions

\* The client chains and_then on every promise but the one of a static call on
\* a concrete class, which it observes and awaits only.
Chains == origin # "static"

\* The client's code runs in tasks of the event loop: a task starts when the job
\* queue is drained, and no job runs until the task's code has returned.
ClientRuns == jobs = << >>

(***************************************************************************)
(* Result.and_then, as run by the runtime.                                 *)
(***************************************************************************)
\* What the callback of step k does: the first returns one of NextResults, a
\* later one runs the use case again, on the input k, and returns what call
\* resolved to; each may return a failure or throw as well.
StepResults(k) ==
  IF k = 0 THEN NextResults
  ELSE { call_success(JsNumber(k), Success(JsObject("b"), None, None)),
         Failure(JsError("e2", "Next error"), None, None, None) }

OutcomesAt(k) ==
  IF k = 0 THEN Outcomes
  ELSE [ok : {TRUE}, val : StepResults(k)] \cup [ok : {FALSE}, val : Throwables]

\* The try block without mergeContext: the callback's Result as it is.
TryOutcome_noMerge(self, out) ==
  IF out.ok
  THEN IF IsResult(out.val)
       THEN [ok |-> TRUE, val |-> out.val]
       ELSE [ok |-> FALSE, val |-> ReadTypeError]
  ELSE [ok |-> FALSE, val |-> out.val]

\* What the try block makes of the value the awaited callback resolved to: the
\* merged Result, or the TypeError of reading a field of a value that is no Result.
TryOutcome(self, out) ==
  IF out.ok
  THEN IF IsResult(out.val)
       THEN [ok |-> TRUE, val |-> mergeContext(out.val, self)]
       ELSE [ok |-> FALSE, val |-> ReadTypeError]
  ELSE [ok |-> FALSE, val |-> out.val]

\* The settlement of the promise and_then returned, given the callback's outcome.
AndThenSettle(self, out) ==
  LET t == TryOutcome(self, out) IN
  IF t.ok THEN [st |-> "fulfilled", val |-> t.val]
  ELSE IF CatchThrows(t.val) THEN [st |-> "rejected", val |-> ConvertTypeError]
  ELSE [st |-> "fulfilled", val |-> and_then_catch(self, t.val)]

\* and_then that does not await the pending promise of its callback and returns
\* the receiver at once.
and_then_noAwait(k, rest) ==
  /\ fnst' = [fnst EXCEPT ![k] = "running"]
  /\ ast' = [ast EXCEPT ![k] = "fulfilled"]
  /\ aval' = [aval EXCEPT ![k] = pval[k]]
  /\ jobs' = Append(rest, Job("thenable", k, NoReaction))
  /\ UNCHANGED fnout

\* and_then awaits the promise its callback returned while that promise is
\* pending: the promise and_then returned stays pending with it.
and_then_await(k, rest) ==
  /\ fnst' = [fnst EXCEPT ![k] = "running"]
  /\ ast' = [ast EXCEPT ![k] = "pending"]
  /\ jobs' = Append(rest, Job("thenable", k, NoReaction))
  /\ UNCHANGED <<fnout, aval>>

\* Result.and_then on the Result wrapper k resolved to, up to its first await.
\* rest is the job queue after the running job.  fn returns a Result or throws
\* at once, or it returns a promise that is still pending.
Result_and_then(k, rest) ==
  LET self == pval[k] IN
  IF isFailure(self)
  THEN /\ ast' = [ast EXCEPT ![k] = "fulfilled"]
       /\ aval' = [aval EXCEPT ![k] = and_then_failure(self)]
       /\ jobs' = Append(rest, Job("thenable", k, NoReaction))
       /\ UNCHANGED <<fnst, fnout, calls>>
  ELSE /\ calls' = Append(calls, Call("fn", k, 0, self.data, self))
       /\ \/ \E o \in OutcomesAt(k) :
               /\ fnout' = [fnout EXCEPT ![k] = o]
               /\ fnst' = [fnst EXCEPT ![k] = "settled"]
               /\ IF ~o.ok
                  THEN \* fn threw: the catch block runs at once
                       /\ ast' = [ast EXCEPT ![k] = AndThenSettle(self, o).st]
                       /\ aval' = [aval EXCEPT ![k] = AndThenSettle(self, o).val]
                       /\ jobs' = Append(rest, Job("thenable", k, NoReaction))
                  ELSE \* await of a value: and_then resumes in the next job
                       /\ ast' = [ast EXCEPT ![k] = "pending"]
                       /\ aval' = aval
                       /\ jobs' = rest \o <<Job("resume", k, NoReaction),
                                            Job("thenable", k, NoReaction)>>
          \/ and_then_await(k, rest)

\* The promise the callback of step k returned settles: it resolves to a Result
\* or rejects.
SettleCallback(k) ==
  /\ fnst[k] = "running"
  /\ \E o \in OutcomesAt(k) : fnout' = [fnout EXCEPT ![k] = o]
  /\ fnst' = [fnst EXCEPT ![k] = "settled"]
  /\ jobs' = Append(jobs, Job("resume", k, NoReaction))
  /\ UNCHANGED <<origin, made, pst, pval, reactions, ast, aval, adoptReg,
                 exst, exout, hooks, hookDone, awaitSt, calls>>

\* and_then that merges the context into its receiver in place.
ReceiverAfter_mergedInPlace(self, settled) ==
  IF settled.st = "fulfilled" THEN [self EXCEPT !.context = settled.val.context]
  ELSE self

\* The receiver of and_then once and_then has run: no field of this is
\* assigned, mergeContext and the catch block build new Results.
ReceiverAfter(self, settled) == self

\* and_then resumes after its await: mergeContext, or the catch block.
RunResume ==
  /\ jobs # << >>
  /\ Head(jobs).t = "resume"
  /\ LET k == Head(jobs).k
         s == AndThenSettle(pval[k], fnout[k]) IN
       /\ ast' = [ast EXCEPT ![k] = s.st]
       /\ aval' = [aval EXCEPT ![k] = s.val]
       /\ pval' = [pval EXCEPT ![k] = ReceiverAfter(@, s)]
       /\ jobs' = IF adoptReg[k] THEN Append(Tail(jobs), Job("adopt", k, NoReaction))
                                 ELSE Tail(jobs)
  /\ UNCHANGED <<origin, made, pst, reactions, fnst, fnout, adoptReg,
                 exst, exout, hooks, hookDone, awaitSt, calls>>

(***************************************************************************)
(* ResultPromise.                                                          *)
(***************************************************************************)
\* ResultPromise.and_then on wrapper k: the new wrapper k+1.
ResultPromise_and_then(k) ==
  /\ ClientRuns
  /\ Chains
  /\ pst[k] # "none"
  /\ pst[k + 1] = "none"
  /\ pst' = [pst EXCEPT ![k + 1] = "pending"]
  /\ reactions' = ThenReactions(k, Reaction("and_then", "", None, 0))
  /\ jobs' = ThenQueue(k, Reaction("and_then", "", None, 0), jobs)
  /\ UNCHANGED <<origin, made, pval, fnst, fnout, ast, aval, adoptReg,
                 exst, exout, hooks, hookDone, awaitSt, calls>>

\* A rejection handler that turned the reason into a failure Result.
ThenRejected_caught(k) ==
  [st |-> "fulfilled",
   val |-> Failure(NormalizeError(pval[k]), Some("UNEXPECTED_ERROR"), None, None)]

\* What this.promise.then(reaction), given no rejection handler, settles the
\* new promise with when the promise of wrapper k has rejected: the rejection
\* and its reason.
ThenRejected(k) == [st |-> "rejected", val |-> pval[k]]

\* The reaction and_then registered: result => result.and_then(fn).  A rejected
\* promise passes its reason on without running the reaction.
RunAndThen ==
  /\ jobs # << >>
  /\ Head(jobs).t = "reaction"
  /\ Head(jobs).r.kind = "and_then"
  /\ LET k == Head(jobs).k IN
       IF pst[k] = "rejected"
       THEN /\ pst' = [pst EXCEPT ![k + 1] = ThenRejected(k).st]
            /\ pval' = [pval EXCEPT ![k + 1] = ThenRejected(k).val]
            /\ jobs' = Tail(jobs) \o ReactionJobs(k + 1, reactions[k + 1])
            /\ reactions' = [reactions EXCEPT ![k + 1] = << >>]
            /\ UNCHANGED <<fnst, fnout, ast, aval, calls>>
       ELSE /\ Result_and_then(k, Tail(jobs))
            /\ UNCHANGED <<pst, pval, reactions>>
  /\ UNCHANGED <<origin, made, adoptReg, exst, exout, hooks, hookDone, awaitSt>>

\* The new promise was resolved with the promise and_then returned: the runtime
\* calls its then in a job of its own.
RunThenable ==
  /\ jobs # << >>
  /\ Head(jobs).t = "thenable"
  /\ LET k == Head(jobs).k IN
       IF ast[k] = "pending"
       THEN /\ adoptReg' = [adoptReg EXCEPT ![k] = TRUE]
            /\ jobs' = Tail(jobs)
       ELSE /\ adoptReg' = adoptReg
            /\ jobs' = Append(Tail(jobs), Job("adopt", k, NoReaction))
  /\ UNCHANGED <<origin, made, pst, pval, reactions, fnst, fnout, ast, aval,
                 exst, exout, hooks, hookDone, awaitSt, calls>>

\* What the reaction of ResultPromise.and_then returns to the new promise: the
\* promise Result.and_then returned.
AdoptedState(k) == ast[k]

\* The reaction returns the Result it was given instead.
AdoptedValue_receiver(k) == pval[k]

AdoptedValue(k) == aval[k]

\* The new promise takes the state of the promise and_then returned.
RunAdopt ==
  /\ jobs # << >>
  /\ Head(jobs).t = "adopt"
  /\ LET k == Head(jobs).k IN
       /\ pst' = [pst EXCEPT ![k + 1] = AdoptedState(k)]
       /\ pval' = [pval EXCEPT ![k + 1] = AdoptedValue(k)]
       /\ jobs' = Tail(jobs) \o ReactionJobs(k + 1, reactions[k + 1])
       /\ reactions' = [reactions EXCEPT ![k + 1] = << >>]
  /\ UNCHANGED <<origin, made, fnst, fnout, ast, aval, adoptReg,
                 exst, exout, hooks, hookDone, awaitSt, calls>>

\* Result.onSuccess invokes its callback.
onSuccessRuns(res) == res.isSuccess

\* onFailure that does not compare the failure type.
onFailureRuns_anyType(res, failureType) == isFailure(res)

\* onFailure without the default of its second parameter: a type left out
\* matches no failure.
onFailureRuns_noDefault(res, failureType) ==
  isFailure(res) /\ failureType.some /\ res.resultType = failureType.val

\* Result.onFailure invokes its callback; failureType defaults to 'FAILURE'.
onFailureRuns(res, failureType) ==
  isFailure(res) /\ res.resultType = OrElse(failureType, "FAILURE")

HookRuns(h, res) ==
  IF h.m = "onSuccess" THEN onSuccessRuns(res) ELSE onFailureRuns(res, h.type)

\* The first argument the hook is invoked with.
HookArg(h, res) == IF h.m = "onSuccess" THEN res.data ELSE res.error

\* The client observes one wrapper of the chain: its hooks and its await are
\* all on wrapper k.
Observes(k) ==
  \A j \in Wrappers \ {k} : hooks[j] = << >> /\ awaitSt[j].st = "none"

\* onSuccess and onFailure of wrapper k return this.
HookReturns(k) == k

\* and_then has been called on wrapper k: wrapper k + 1 exists.  A note for
\* the order of registration, taken where that order is observed.
Chained(k) == origin = "observed" /\ k + 1 \in Wrappers /\ pst[k + 1] # "none"

\* The number of hooks the client registers on one wrapper.
HookBound == IF origin = "observed" THEN MaxOrderedHooks ELSE MaxHooks

\* ResultPromise.onSuccess on wrapper k.
ResultPromise_onSuccess(k) ==
  /\ ClientRuns
  /\ pst[k] # "none"
  /\ Observes(k)
  /\ Len(hooks[k]) < HookBound
  /\ LET r == Reaction("hook", "onSuccess", None, Len(hooks[k]) + 1) IN
       /\ hooks' = [hooks EXCEPT ![k] = Append(@, Hook(r, HookReturns(k), Chained(k)))]
       /\ reactions' = ThenReactions(k, r)
       /\ jobs' = ThenQueue(k, r, jobs)
  /\ UNCHANGED <<origin, made, pst, pval, fnst, fnout, ast, aval, adoptReg,
                 exst, exout, hookDone, awaitSt, calls>>

\* ResultPromise.onFailure on wrapper k.
ResultPromise_onFailure(k) ==
  /\ ClientRuns
  /\ pst[k] # "none"
  /\ Observes(k)
  /\ Len(hooks[k]) < HookBound
  /\ \E type \in MatchTypes :
       LET r == Reaction("hook", "onFailure", type, Len(hooks[k]) + 1) IN
         /\ hooks' = [hooks EXCEPT ![k] = Append(@, Hook(r, HookReturns(k), Chained(k)))]
         /\ reactions' = ThenReactions(k, r)
         /\ jobs' = ThenQueue(k, r, jobs)
  /\ UNCHANGED <<origin, made, pst, pval, fnst, fnout, ast, aval, adoptReg,
                 exst, exout, hookDone, awaitSt, calls>>

\* The reaction a hook registered: result => result.onSuccess(f) / onFailure(f, type).
RunHook ==
  /\ jobs # << >>
  /\ Head(jobs).t = "reaction"
  /\ Head(jobs).r.kind = "hook"
  /\ LET k == Head(jobs).k
         h == Head(jobs).r IN
       /\ calls' = IF pst[k] = "fulfilled" /\ HookRuns(h, pval[k])
                   THEN Append(calls, Call("hook", k, h.i, HookArg(h, pval[k]), pval[k]))
                   ELSE calls
       /\ hookDone' = [hookDone EXCEPT ![k] = @ \cup {h.i}]
  /\ jobs' = Tail(jobs)
  /\ UNCHANGED <<origin, made, pst, pval, reactions, fnst, fnout, ast, aval, adoptReg,
                 exst, exout, hooks, awaitSt>>

\* ResultPromise.toResult on wrapper k, awaited by the client: it runs up to its
\* await of the wrapped promise.
ResultPromise_toResult(k) ==
  /\ ClientRuns
  /\ pst[k] # "none"
  /\ Observes(k)
  /\ awaitSt[k].st = "none"
  /\ awaitSt' = [awaitSt EXCEPT ![k] = [st |-> "requested", hooks |-> Len(hooks[k])]]
  /\ reactions' = ThenReactions(k, Reaction("toResult", "", None, 0))
  /\ jobs' = ThenQueue(k, Reaction("toResult", "", None, 0), jobs)
  /\ UNCHANGED <<origin, made, pst, pval, fnst, fnout, ast, aval, adoptReg,
                 exst, exout, hooks, hookDone, calls>>

\* The client awaits wrapper k itself: the runtime calls its then in a job.
AwaitWrapper(k) ==
  /\ ClientRuns
  /\ pst[k] # "none"
  /\ Observes(k)
  /\ awaitSt[k].st = "none"
  /\ awaitSt' = [awaitSt EXCEPT ![k] = [st |-> "requested", hooks |-> Len(hooks[k])]]
  /\ jobs' = Append(jobs, Job("thenable_await", k, NoReaction))
  /\ UNCHANGED <<origin, made, pst, pval, reactions, fnst, fnout, ast, aval, adoptReg,
                 exst, exout, hooks, hookDone, calls>>

\* ResultPromise.then, called by the runtime for the await.
ResultPromise_then ==
  /\ jobs # << >>
  /\ Head(jobs).t = "thenable_await"
  /\ LET k == Head(jobs).k IN
       /\ reactions' = ThenReactions(k, Reaction("then", "", None, 0))
       /\ jobs' = ThenQueue(k, Reaction("then", "", None, 0), Tail(jobs))
  /\ UNCHANGED <<origin, made, pst, pval, fnst, fnout, ast, aval, adoptReg,
                 exst, exout, hooks, hookDone, awaitSt, calls>>

\* toResult resumes after its await and settles its promise, or the reaction of
\* then settles the awaited promise: the client resumes in the next job.
RunToResult ==
  /\ jobs # << >>
  /\ Head(jobs).t = "reaction"
  /\ Head(jobs).r.kind \in {"toResult", "then"}
  /\ jobs' = Append(Tail(jobs), Job("await_done", Head(jobs).k, NoReaction))
  /\ UNCHANGED <<origin, made, pst, pval, reactions, fnst, fnout, ast, aval, adoptReg,
                 exst, exout, hooks, hookDone, awaitSt, calls>>

\* The client's await completes.
RunAwaitDone ==
  /\ jobs # << >>
  /\ Head(jobs).t = "await_done"
  /\ awaitSt' = [awaitSt EXCEPT ![Head(jobs).k].st = "completed"]
  /\ jobs' = Tail(jobs)
  /\ UNCHANGED <<origin, made, pst, pval, reactions, fnst, fnout, ast, aval, adoptReg,
                 exst, exout, hooks, hookDone, calls>>

(***************************************************************************)
(* UseCase.call: its promise is the one wrapper 0 holds.                   *)
(***************************************************************************)
\* The settlement of the promise call returned, given what execute did.
CallSettle(params, out) ==
  IF out.ok /\ IsResult(out.val)
  THEN [st |-> "fulfilled",
        val |-> IF isFailure(out.val) THEN call_failure(out.val)
                                      ELSE call_success(params, out.val)]
  ELSE LET error == IF out.ok THEN ReadTypeError ELSE out.val IN
       IF CatchThrows(error) THEN [st |-> "rejected", val |-> ConvertTypeError]
       ELSE [st |-> "fulfilled", val |-> call_catch(error)]

\* The input call was given: the argument of the invocation of execute.
CallParams ==
  calls[CHOOSE n \in 1..Len(calls) : calls[n].who = "execute"].a1

\* The static call awaits the promise of call: the promise wrapper 0 holds is
\* then the one the static call returned.
ViaStatic == origin \in {"static", "abstract"}

\* call up to its await of execute, log being the invocations so far: execute
\* returns a Result or throws at once, or it returns a promise that is still
\* pending.  A throw settles the promise of call at once.
call_begin(params, log) ==
  /\ calls' = Append(log, Call("execute", 0, 0, params, NoValue))
  /\ \/ \E o \in ExecuteOutcomesFor(params) :
          /\ exout' = o
          /\ exst' = "settled"
          /\ IF ~o.ok /\ ~ViaStatic
             THEN /\ pst' = [pst EXCEPT ![0] = CallSettle(params, o).st]
                  /\ pval' = [pval EXCEPT ![0] = CallSettle(params, o).val]
                  /\ jobs' = jobs
             ELSE /\ pst' = [pst EXCEPT ![0] = "pending"]
                  /\ pval' = pval
                  /\ jobs' = Append(jobs, Job(IF o.ok THEN "resume_call" ELSE "resume_static",
                                              0, NoReaction))
     \/ /\ exst' = "running"
        /\ pst' = [pst EXCEPT ![0] = "pending"]
        /\ UNCHANGED <<exout, pval, jobs>>

\* UseCase.call on an instance.
UseCase_call ==
  /\ ClientRuns
  /\ origin = "usecase"
  /\ exst = "notCalled"
  /\ \E params \in ParamsSet : call_begin(params, calls)
  /\ UNCHANGED <<origin, made, reactions, fnst, fnout, ast, aval, adoptReg,
                 hooks, hookDone, awaitSt>>

\* The class the static call is made on.
StaticThis == IF origin = "abstract" THEN "UseCase" ELSE ClassName

\* The static call without its check.
IsAbstract_never(cls) == FALSE

\* this === UseCase
IsAbstract(cls) == cls = "UseCase"

\* The static UseCase.call: on UseCase itself it throws, and its promise
\* rejects; on a concrete class it makes an instance and awaits its call.
UseCase_static_call ==
  /\ ClientRuns
  /\ ViaStatic
  /\ pst[0] = "none"
  /\ \E params \in ParamsSet :
       IF IsAbstract(StaticThis)
       THEN /\ pst' = [pst EXCEPT ![0] = "rejected"]
            /\ pval' = [pval EXCEPT ![0] = AbstractError]
            /\ UNCHANGED <<calls, exst, exout, jobs>>
       ELSE call_begin(params,
                       Append(calls, Call("new", 0, 0, JsString(StaticThis), NoValue)))
  /\ UNCHANGED <<origin, made, reactions, fnst, fnout, ast, aval, adoptReg,
                 hooks, hookDone, awaitSt>>

\* The promise execute returned settles: it resolves to a Result or rejects.
SettleExecute ==
  /\ exst = "running"
  /\ \E o \in ExecuteOutcomesFor(CallParams) : exout' = o
  /\ exst' = "settled"
  /\ jobs' = Append(jobs, Job("resume_call", 0, NoReaction))
  /\ UNCHANGED <<origin, made, pst, pval, reactions, fnst, fnout, ast, aval, adoptReg,
                 hooks, hookDone, awaitSt, calls>>

\* call resumes after its await of execute and settles its promise; the static
\* call that awaits that promise resumes in a later job.
RunResumeCall ==
  /\ jobs # << >>
  /\ Head(jobs).t = "resume_call"
  /\ IF ViaStatic
     THEN /\ jobs' = Append(Tail(jobs), Job("resume_static", 0, NoReaction))
          /\ UNCHANGED <<pst, pval, reactions>>
     ELSE /\ pst' = [pst EXCEPT ![0] = CallSettle(CallParams, exout).st]
          /\ pval' = [pval EXCEPT ![0] = CallSettle(CallParams, exout).val]
          /\ jobs' = Tail(jobs) \o ReactionJobs(0, reactions[0])
          /\ reactions' = [reactions EXCEPT ![0] = << >>]
  /\ UNCHANGED <<origin, made, fnst, fnout, ast, aval, adoptReg,
                 exst, exout, hooks, hookDone, awaitSt, calls>>

\* return await self.call(params): the static call resumes and settles its
\* promise as the promise of call settled.
RunResumeStatic ==
  /\ jobs # << >>
  /\ Head(jobs).t = "resume_static"
  /\ pst' = [pst EXCEPT ![0] = CallSettle(CallParams, exout).st]
  /\ pval' = [pval EXCEPT ![0] = CallSettle(CallParams, exout).val]
  /\ jobs' = Tail(jobs) \o ReactionJobs(0, reactions[0])
  /\ reactions' = [reactions EXCEPT ![0] = << >>]
  /\ UNCHANGED <<origin, made, fnst, fnout, ast, aval, adoptReg,
                 exst, exout, hooks, hookDone, awaitSt, calls>>

(***************************************************************************)
(* The specification.                                                      *)
(***************************************************************************)
Next ==
  \/ UseCase_call
  \/ UseCase_static_call
  \/ SettleExecute
  \/ RunResumeCall
  \/ RunResumeStatic
  \/ \E k \in Steps : ResultPromise_and_then(k)
  \/ \E k \in Steps : SettleCallback(k)
  \/ RunAndThen
  \/ RunResume
  \/ RunThenable
  \/ RunAdopt
  \/ \E k \in Wrappers : ResultPromise_onSuccess(k)
  \/ \E k \in Wrappers : ResultPromise_onFailure(k)
  \/ RunHook
  \/ \E k \in Wrappers : ResultPromise_toResult(k)
  \/ \E k \in Wrappers : AwaitWrapper(k)
  \/ ResultPromise_then
  \/ RunToResult
  \/ RunAwaitDone

Spec == Init /\ [][Next]_vars

(***************************************************************************)
(* The order of the reactions of one wrapper: the client registers hooks   *)
(* and and_then on the wrappers of a chain that starts from a resolved     *)
(* promise.                                                                *)
(***************************************************************************)
InitHooks == InitFrom({"observed"})

NextHooks ==
  \/ \E k \in Steps : ResultPromise_and_then(k)
  \/ \E k \in Steps : SettleCallback(k)
  \/ RunAndThen
  \/ RunResume
  \/ RunThenable
  \/ RunAdopt
  \/ \E k \in Wrappers : ResultPromise_onSuccess(k)
  \/ \E k \in Wrappers : ResultPromise_onFailure(k)
  \/ RunHook

SpecHooks == InitHooks /\ [][NextHooks]_vars

(***************************************************************************)
(* The values on their own: the client builds a Result with a factory, or  *)
(* calls onSuccess or onFailure on a Result at hand, with no promise in    *)
(* play.                                                                   *)
(***************************************************************************)
\* How a call completes: it returns the object at ref, whose fields are val, or
\* it throws val.
Return(ref, val) == [ok |-> TRUE, ref |-> ref, val |-> val]
Throw(val) == [ok |-> FALSE, ref |-> "", val |-> val]

\* A return of a new Result with the receiver's fields.
ReturnThis_copy(self) == Return("new", self)

\* return this
ReturnThis(self) == Return("this", self)

\* The callback of onSuccess / onFailure inside a try whose catch drops the error.
InvokeCallback_caught(runs, cb, self) == ReturnThis(self)

\* if (condition) f(...); return this; with no try around the call: what f
\* throws leaves the method.
InvokeCallback(runs, cb, self) ==
  IF runs /\ ~cb.ok THEN Throw(cb.val) ELSE ReturnThis(self)

\* The invocations of the callback, each with its two arguments.
CallbackArgs(runs, a1, self) ==
  IF runs THEN << [a1 |-> a1, a2 |-> self] >> ELSE << >>

\* Result.onSuccess(f), where cb is what f does.
Result_onSuccess(self, cb) ==
  [op |-> "onSuccess", self |-> self, type |-> None, cb |-> cb,
   args |-> CallbackArgs(onSuccessRuns(self), getValue(self), self),
   done |-> InvokeCallback(onSuccessRuns(self), cb, self)]

\* Result.onFailure(f, failureType), where cb is what f does.
Result_onFailure(self, cb, failureType) ==
  [op |-> "onFailure", self |-> self, type |-> failureType, cb |-> cb,
   args |-> CallbackArgs(onFailureRuns(self, failureType), getError(self), self),
   done |-> InvokeCallback(onFailureRuns(self, failureType), cb, self)]

\* The Results the client calls onSuccess and onFailure on.
Receivers == InitialResults \cup NextResults

\* What the callback of onSuccess / onFailure does: it returns, or throws a value.
CallbackOutcomes == {NoOutcome} \cup [ok : {FALSE}, val : Throwables]

\* The arguments the client gives the factories.
Values == { JsUndefined, JsNull, JsNumber(0), JsNumber(4), JsString(""), JsObject("a") }
Errors == { JsError("e1", "Test error"), JsError("e2", "Next error") }
FailureTypes == { None, Some("CUSTOM_FAILURE"), Some("") }
Contexts == { None, Some(Ctx1) }
Labels == { None, Some("TestUseCase") }
\* The input and output a Context is built from.
ContextInputs == { JsUndefined, JsObject("in1"), JsObject("in2"), JsObject("in3") }
ContextOutputs == { JsNull, JsObject("out1"), JsObject("out2"), JsObject("out3") }
\* The accessors of the class the Context is an instance of: none for Context
\* itself, the getter id of a subclass.
Accessors == { EmptyContext, [k \in {"id"} |-> JsString("fixed")] }

chain == <<origin, pst, pval, reactions, jobs, fnst, fnout, ast, aval, adoptReg,
           exst, exout, hooks, hookDone, awaitSt, calls>>

Client_Success ==
  /\ \E v \in Values, c \in Contexts, l \in Labels :
       made' = [op |-> "Success", value |-> v, context |-> c, label |-> l,
                out |-> Success(v, c, l)]
  /\ UNCHANGED chain

Client_Failure ==
  /\ \E e \in Errors, t \in FailureTypes, c \in Contexts, l \in Labels :
       made' = [op |-> "Failure", error |-> e, type |-> t, context |-> c, label |-> l,
                out |-> Failure(e, t, c, l)]
  /\ UNCHANGED chain

Client_onSuccess ==
  /\ \E r \in Receivers, cb \in CallbackOutcomes : made' = Result_onSuccess(r, cb)
  /\ UNCHANGED chain

Client_onFailure ==
  /\ \E r \in Receivers, cb \in CallbackOutcomes, t \in MatchTypes :
       made' = Result_onFailure(r, cb, t)
  /\ UNCHANGED chain

Client_Context ==
  /\ \E a \in Accessors, i \in ContextInputs, o \in ContextOutputs :
       made' = [op |-> "Context", accessors |-> a, input |-> i, output |-> o,
                out |-> SubclassContext(a, i, o)]
  /\ UNCHANGED chain

NextValues ==
  \/ Client_Context
  \/ Client_Success
  \/ Client_Failure
  \/ Client_onSuccess
  \/ Client_onFailure

SpecValues == Init /\ [][NextValues]_vars

(***************************************************************************)
(* Properties.                                                             *)
(***************************************************************************)
\* The positions in the log of the invocations of the callback of step k.
FnCalls(k) == {n \in 1..Len(calls) : calls[n].who = "fn" /\ calls[n].k = k}
\* The positions in the log of the invocations of hook i of wrapper k.
HookCalls(k, i) ==
  {n \in 1..Len(calls) : calls[n].who = "hook" /\ calls[n].k = k /\ calls[n].i = i}

\* C1: and_then on a failure Result never invokes its callback and resolves to a
\* failure with the receiver's error, resultType, context and useCaseClass.
C1_FailureShortCircuits ==
  \A k \in Steps :
    (pst[k] = "fulfilled" /\ ~pval[k].isSuccess) =>
      /\ FnCalls(k) = {}
      /\ fnst[k] = "notInvoked"
      /\ ast[k] \in {"none", "fulfilled"}
      /\ ast[k] = "fulfilled" =>
           /\ ~aval[k].isSuccess
           /\ aval[k].error = pval[k].error
           /\ aval[k].resultType = pval[k].resultType
           /\ aval[k].context = pval[k].context
           /\ aval[k].useCaseClass = pval[k].useCaseClass

C1_Witness ==
  \E k \in Steps :
    /\ pst[k] = "fulfilled" /\ ~pval[k].isSuccess
    /\ ast[k] = "fulfilled"
    /\ pval[k].resultType = "CUSTOM_FAILURE"
    /\ pval[k].context # EmptyContext
    /\ pval[k].useCaseClass # ""

\* Step k ran its callback on a success Result and the callback returned, or
\* resolved to, the Result fnout[k].val; and_then has resolved.
Returned(k) ==
  /\ pst[k] = "fulfilled" /\ pval[k].isSuccess
  /\ fnst[k] = "settled" /\ fnout[k].ok
  /\ ast[k] = "fulfilled"

\* C2: the context of the Result and_then produces on a success is the shallow
\* merge of the receiver's context then the returned Result's: every key of
\* either, and the returned Result's value for a key of both.
C2_ContextMerged ==
  \A k \in Steps :
    Returned(k) =>
      LET a == pval[k].context
          b == fnout[k].val.context
          c == aval[k].context IN
        /\ DOMAIN c = DOMAIN a \cup DOMAIN b
        /\ \A key \in DOMAIN b : c[key] = b[key]
        /\ \A key \in DOMAIN a \ DOMAIN b : c[key] = a[key]

C2_Witness ==
  \E k \in Steps :
    /\ Returned(k)
    /\ \E key \in DOMAIN pval[k].context \cap DOMAIN fnout[k].val.context :
         /\ pval[k].context[key] # fnout[k].val.context[key]
         /\ aval[k].context[key] = fnout[k].val.context[key]
    /\ DOMAIN fnout[k].val.context \ DOMAIN pval[k].context # {}

\* C3: the Result and_then produces on a success takes resultType, success flag,
\* data, error and useCaseClass from the returned Result; with an empty receiver
\* context it equals the returned Result field for field.
C3_OtherFieldsFromNext ==
  \A k \in Steps :
    Returned(k) =>
      LET next == fnout[k].val IN
        /\ aval[k].resultType = next.resultType
        /\ aval[k].isSuccess = next.isSuccess
        /\ aval[k].data = next.data
        /\ aval[k].error = next.error
        /\ aval[k].useCaseClass = next.useCaseClass
        /\ pval[k].context = EmptyContext => aval[k] = next

C3_Witness ==
  \E k \in Steps :
    /\ Returned(k)
    /\ pval[k].context = EmptyContext
    /\ pval[k].useCaseClass # fnout[k].val.useCaseClass
    /\ aval[k] = fnout[k].val

\* The callback of step k threw, or the promise it returned rejected, and
\* and_then has settled.
Threw(k) ==
  /\ pst[k] = "fulfilled" /\ pval[k].isSuccess
  /\ fnst[k] = "settled" /\ ~fnout[k].ok
  /\ ast[k] \in {"fulfilled", "rejected"}

\* C4: when the callback throws or rejects, and_then resolves to a failure of
\* type UNEXPECTED_ERROR whose context is the receiver's plus rawError bound to
\* the thrown value, with the receiver's useCaseClass.
C4_ThrowBecomesUnexpectedError ==
  \A k \in Steps :
    Threw(k) =>
      /\ ast[k] = "fulfilled"
      /\ ~aval[k].isSuccess
      /\ aval[k].resultType = "UNEXPECTED_ERROR"
      /\ DOMAIN aval[k].context = DOMAIN pval[k].context \cup {"rawError"}
      /\ aval[k].context["rawError"] = fnout[k].val
      /\ \A key \in DOMAIN pval[k].context \ {"rawError"} :
           aval[k].context[key] = pval[k].context[key]
      /\ aval[k].useCaseClass = pval[k].useCaseClass

\* The failure made of the thrown value v: the error is v itself when v is an
\* Error, otherwise a new Error with String(v) for its message; rawError is v.
NormalizedIn(res, v) ==
  /\ ~res.isSuccess
  /\ res.context["rawError"] = v
  /\ IF v.kind = "Error"
     THEN res.error = v
     ELSE /\ res.error.kind = "Error"
          /\ res.error.str = String(v)
          /\ res.error # v

C6_NeverRejects ==
  /\ \A k \in Steps : ast[k] # "rejected"
  /\ origin = "usecase" => pst[0] # "rejected"

\* C7: the callbacks of a chain start in chain order, the next one only after
\* the promise of the one before has settled; no two are in progress at once.
C7_CallbacksInOrder ==
  /\ \A k \in Steps :
       (k + 1 \in Steps /\ fnst[k + 1] # "notInvoked") => fnst[k] = "settled"
  /\ \A j, k \in Steps : (fnst[j] = "running" /\ fnst[k] = "running") => j = k
  /\ \A m, n \in 1..Len(calls) :
       (calls[m].who = "fn" /\ calls[n].who = "fn" /\ m < n) => calls[m].k < calls[n].k

C7_Witness ==
  \E k \in Steps :
    /\ k + 1 \in Steps
    /\ fnst[k] = "settled"
    /\ fnst[k + 1] = "running"

\* C8: ResultPromise.and_then on a wrapper whose Result is a failure never
\* invokes its callback, and the new wrapper resolves to a failure with the
\* original error.
C8_WrapperFailureShortCircuits ==
  \A k \in Steps :
    (pst[k] = "fulfilled" /\ ~pval[k].isSuccess) =>
      /\ FnCalls(k) = {}
      /\ pst[k + 1] \in {"none", "pending", "fulfilled"}
      /\ pst[k + 1] = "fulfilled" =>
           (~pval[k + 1].isSuccess /\ pval[k + 1].error = pval[k].error)

C8_Witness ==
  \E k \in Steps :
    /\ pst[k] = "fulfilled" /\ ~pval[k].isSuccess
    /\ pst[k + 1] = "fulfilled"
    /\ pval[k + 1].error = pval[k].error
    /\ pval[k].error.kind = "Error"

\* C9: the wrapper and_then returns resolves to the Result that Result.and_then
\* gives on the awaited Result, step after step along a chain, and each
\* callback is invoked as often and with the same arguments.
C9_WrapperMatchesResult ==
  \A k \in Steps :
    pst[k + 1] = "fulfilled" =>
      /\ pst[k] = "fulfilled"
      /\ pval[k + 1] = IF pval[k].isSuccess
                       THEN AndThenSettle(pval[k], fnout[k]).val
                       ELSE and_then_failure(pval[k])
      /\ IF pval[k].isSuccess
         THEN /\ Cardinality(FnCalls(k)) = 1
              /\ \A n \in FnCalls(k) : calls[n].a1 = pval[k].data /\ calls[n].a2 = pval[k]
         ELSE FnCalls(k) = {}

C9_Witness ==
  \E k \in Steps :
    /\ k + 1 \in Steps
    /\ pst[k + 2] = "fulfilled"
    /\ pval[k].isSuccess /\ pval[k + 1].isSuccess
    /\ pval[k + 2].context # pval[k + 1].context

\* The condition under which the hook h is to run on the Result res.
HookCondition(h, res) ==
  IF h.m = "onSuccess" THEN res.isSuccess
  ELSE ~res.isSuccess /\ res.resultType = (IF h.type.some THEN h.type.val ELSE "FAILURE")

C10_State ==
  /\ \A k \in Wrappers : \A i \in 1..Len(hooks[k]) : hooks[k][i].ret = k
  /\ \A n \in 1..Len(calls) :
       calls[n].who = "hook" =>
         LET k == calls[n].k
             h == hooks[k][calls[n].i] IN
           /\ pst[k] = "fulfilled"
           /\ HookCondition(h, pval[k])
           /\ calls[n].a2 = pval[k]
  /\ \A k \in Wrappers :
       awaitSt[k].st = "completed" =>
         \A i \in 1..awaitSt[k].hooks :
           /\ i \in hookDone[k]
           /\ (pst[k] = "fulfilled" /\ HookCondition(hooks[k][i], pval[k]))
                => Cardinality(HookCalls(k, i)) = 1

C10_Step == hooks' # hooks => calls' = calls

\* C10: onSuccess and onFailure of a wrapper return that wrapper without
\* invoking the hook during the call; the hook is invoked only once the wrapped
\* Result has resolved and only when its condition holds; a hook registered
\* before an await on the wrapper was requested has run when the await completes.
C10_HooksDeferred == []C10_State /\ [][C10_Step]_vars

C10_Witness ==
  \E k \in Wrappers :
    /\ awaitSt[k].st = "completed"
    /\ awaitSt[k].hooks = 1
    /\ hooks[k][1].m = "onFailure"
    /\ HookCalls(k, 1) # {}

\* C11: Result.onSuccess and Result.onFailure, whenever they return, return the
\* very Result they were called on, with its fields as they were, whether or
\* not the callback was invoked.
C11_ReturnsSameInstance ==
  (made.op \in {"onSuccess", "onFailure"} /\ made.done.ok) =>
    /\ made.done.ref = "this"
    /\ made.done.val = made.self

\* onSuccess on a success invoked its callback and returned.
C11_Witness ==
  /\ made.op = "onSuccess"
  /\ made.self.isSuccess
  /\ Len(made.args) = 1
  /\ made.done.ok

\* C12: Result.onFailure invokes its callback, once and with (error, self), if
\* and only if the Result is a failure whose resultType equals the type asked
\* for, "FAILURE" when none is given; otherwise the callback is not invoked.
C12_OnFailureMatchesType ==
  made.op = "onFailure" =>
    LET asked == IF made.type.some THEN made.type.val ELSE "FAILURE"
        matches == ~made.self.isSuccess /\ made.self.resultType = asked IN
      /\ Len(made.args) = IF matches THEN 1 ELSE 0
      /\ matches => /\ made.args[1].a1 = made.self.error
                     /\ made.args[1].a2 = made.self

\* onFailure with no type given invoked its callback on a failure of type
\* "FAILURE".
C12_Witness ==
  /\ made.op = "onFailure"
  /\ ~made.type.some
  /\ made.self.resultType = "FAILURE"
  /\ Len(made.args) = 1

\* C13: what the callback of Result.onSuccess or Result.onFailure throws is not
\* caught: the method throws the same value to its caller and returns no Result.
C13_CallbackThrowPropagates ==
  (made.op \in {"onSuccess", "onFailure"} /\ Len(made.args) = 1 /\ ~made.cb.ok) =>
    /\ ~made.done.ok
    /\ made.done.val = made.cb.val

\* The callback of onFailure was invoked and threw a value that is no Error.
C13_Witness ==
  /\ made.op = "onFailure"
  /\ Len(made.args) = 1
  /\ ~made.cb.ok
  /\ made.cb.val = JsNumber(42)
  /\ ~made.done.ok

\* C14 as stated: for every value v, absent, null and undefined ones included,
\* Success(v) is a success of type "SUCCESS" whose getValue() is v.
C14_SuccessHoldsValue ==
  made.op = "Success" =>
    /\ isSuccess(made.out)
    /\ getType(made.out) = "SUCCESS"
    /\ getValue(made.out) = made.value

\* C14 amended: Success(v) is a success of type "SUCCESS"; its getValue() is v
\* when v is neither null nor undefined, and the empty object otherwise.
C14_SuccessHoldsValueOrSentinel ==
  made.op = "Success" =>
    /\ isSuccess(made.out)
    /\ getType(made.out) = "SUCCESS"
    /\ getValue(made.out) = IF made.value.kind \in {"undefined", "null"}
                             THEN EmptyObject ELSE made.value

\* Success(null) holds the empty object.
C14_Witness ==
  /\ made.op = "Success"
  /\ made.value = JsNull
  /\ getValue(made.out) = EmptyObject

\* C15: for every Error e and tag t, Failure(e, t) is a failure whose type is
\* t, "FAILURE" when t is left out, whose getError() is e and whose getValue()
\* is the empty object.
C15_FailureHoldsError ==
  made.op = "Failure" =>
    /\ isFailure(made.out)
    /\ getType(made.out) = (IF made.type.some THEN made.type.val ELSE "FAILURE")
    /\ getError(made.out) = made.error
    /\ getValue(made.out) = EmptyObject

\* Failure(e, "CUSTOM_FAILURE") was built.
C15_Witness ==
  /\ made.op = "Failure"
  /\ made.type = Some("CUSTOM_FAILURE")
  /\ getType(made.out) = "CUSTOM_FAILURE"

\* The value the claim of C20 gives the property key of a Context built from
\* input and output.
C20_Expected(key) ==
  IF key \in DOMAIN OwnProperties(made.output)
  THEN OwnProperties(made.output)[key] ELSE OwnProperties(made.input)[key]

\* C20 as stated: a Context built from (input, output) has every key of input
\* and every key of output as a property, with output's value when output has
\* the key and input's value otherwise.
C20_EveryKeyExposed ==
  made.op = "Context" =>
    \A key \in DOMAIN OwnProperties(made.input) \cup DOMAIN OwnProperties(made.output) :
      GetProperty(made.out, key) = C20_Expected(key)

\* C20 amended: the same for every key that is not already a member of the
\* instance (_inputParams, _outputParams, getInput, getOutput, the inherited
\* members and the accessors of a subclass).
C20_EveryFreeKeyExposed ==
  made.op = "Context" =>
    \A key \in DOMAIN OwnProperties(made.input) \cup DOMAIN OwnProperties(made.output) :
      key \notin {"_inputParams", "_outputParams", "getInput", "getOutput", "constructor",
                  "toString", "toLocaleString", "valueOf", "hasOwnProperty",
                  "isPrototypeOf", "propertyIsEnumerable", "__proto__"}
                 \cup DOMAIN made.accessors
        => GetProperty(made.out, key) = C20_Expected(key)

\* A Context was built from an input and an output that share a key, and the
\* property has output's value.
C20_Witness ==
  /\ made.op = "Context"
  /\ made.accessors = EmptyContext
  /\ made.input = JsObject("in2")
  /\ made.output = JsObject("out2")
  /\ GetProperty(made.out, "shared") = JsString("output")
  /\ GetProperty(made.out, "id") = JsString("123")

\* The promise of a call on an instance has settled.
CallSettled == origin = "usecase" /\ exst = "settled" /\ pst[0] \in {"fulfilled", "rejected"}

\* What call resolved to is a success with execute's value, labelled with the
\* operation's name, whose context has the one key ClassName.
C16_Rewrapped ==
  /\ pst[0] = "fulfilled"
  /\ pval[0].isSuccess
  /\ pval[0].resultType = "SUCCESS"
  /\ pval[0].data = exout.val.data
  /\ pval[0].useCaseClass = ClassName
  /\ DOMAIN pval[0].context = {ClassName}
  /\ pval[0].context[ClassName].kind = "Context"
  /\ getOutput(pval[0].context[ClassName]) = exout.val.data

\* C16 as stated: when execute resolves to a success with value v for input i,
\* call resolves to a success with value v, labelled with the operation's name,
\* whose context has exactly one entry, under that name: a Context whose input
\* is i and whose output is v.  The context of execute's Result is dropped.
C16_SuccessContextHoldsInput ==
  (CallSettled /\ exout.ok /\ exout.val.isSuccess) =>
    /\ C16_Rewrapped
    /\ getInput(pval[0].context[ClassName]) = CallParams

\* C16 amended: the same, the input of the Context being i when i is neither
\* null nor undefined and the empty object otherwise.
C16_SuccessContextHoldsInputOrSentinel ==
  (CallSettled /\ exout.ok /\ exout.val.isSuccess) =>
    /\ C16_Rewrapped
    /\ getInput(pval[0].context[ClassName]) =
         IF CallParams.kind \in {"undefined", "null"} THEN EmptyObject ELSE CallParams

\* call was given no input and execute resolved to a success that had a context
\* of its own.
C16_Witness ==
  /\ CallSettled
  /\ CallParams = JsUndefined
  /\ exout.ok /\ exout.val.isSuccess
  /\ exout.val.context # EmptyContext
  /\ pst[0] = "fulfilled"
  /\ getInput(pval[0].context[ClassName]) = EmptyObject

\* C17: when execute resolves to a failure, call resolves to a failure with the
\* same error, resultType and context, no Context entry added, labelled with
\* the operation's name whatever label execute's failure had.
C17_FailureRewrapped ==
  (CallSettled /\ exout.ok /\ ~exout.val.isSuccess) =>
    /\ pst[0] = "fulfilled"
    /\ ~pval[0].isSuccess
    /\ pval[0].error = exout.val.error
    /\ pval[0].resultType = exout.val.resultType
    /\ pval[0].context = exout.val.context
    /\ pval[0].useCaseClass = ClassName

\* execute resolved to a failure with a type, a context and a label of its own.
C17_Witness ==
  /\ CallSettled
  /\ exout.ok /\ ~exout.val.isSuccess
  /\ exout.val.useCaseClass = "InnerUseCase"
  /\ pval[0].resultType = "CUSTOM_FAILURE"
  /\ pval[0].context = Ctx1
  /\ pval[0].useCaseClass = ClassName

\* C18: when execute throws or rejects, call resolves to a failure of type
\* "UNEXPECTED_ERROR" whose context has the one key rawError, bound to the
\* thrown value, labelled with the operation's name.
C18_ThrowBecomesUnexpectedError ==
  (CallSettled /\ ~exout.ok) =>
    /\ pst[0] = "fulfilled"
    /\ ~pval[0].isSuccess
    /\ pval[0].resultType = "UNEXPECTED_ERROR"
    /\ pval[0].context = [k \in {"rawError"} |-> exout.val]
    /\ pval[0].useCaseClass = ClassName

\* The invocations of execute and the instances made, in the log.
Executions == {n \in 1..Len(calls) : calls[n].who = "execute"}
Instances == {n \in 1..Len(calls) : calls[n].who = "new"}

\* C19: the static call on UseCase itself makes no instance and runs no
\* execute, and its promise rejects with the error 'Cannot call static method
\* on abstract UseCase class'; on a concrete class it makes one instance and
\* settles as call on that instance does.
C19_StaticDispatch ==
  /\ origin = "abstract" =>
       /\ Executions = {} /\ Instances = {} /\ exst = "notCalled"
       /\ pst[0] \in {"none", "rejected"}
       /\ pst[0] = "rejected" =>
            /\ pval[0].kind = "Error"
            /\ pval[0].str = "Cannot call static method on abstract UseCase class"
  /\ (origin = "static" /\ pst[0] # "none") =>
       /\ Cardinality(Instances) = 1 /\ Cardinality(Executions) = 1
       /\ \A n \in Instances : calls[n].a1 = JsString(ClassName)
       /\ pst[0] \in {"fulfilled", "rejected"} =>
            /\ pst[0] = CallSettle(CallParams, exout).st
            /\ pval[0] = CallSettle(CallParams, exout).val

\* The static call was made on UseCase itself and the client's await of it
\* completed.
C19_Witness ==
  /\ origin = "abstract"
  /\ pst[0] = "rejected"
  /\ awaitSt[0].st = "completed"

C22_Step ==
  /\ \A k \in Wrappers :
       pst[k] = "fulfilled" => pst'[k] = "fulfilled" /\ pval'[k] = pval[k]
  /\ \A k \in Steps :
       ast[k] = "fulfilled" => ast'[k] = "fulfilled" /\ aval'[k] = aval[k]
  /\ (exst = "settled" /\ exout.ok) => exout' = exout

\* C22: no operation of the library changes a field of a Result once it is
\* constructed: and_then, the hooks, the wrapper's methods and call leave their
\* receiver's resultType, success flag, data, error, context and useCaseClass as
\* they were, and deliver every outcome in a Result of its own.
C22_ResultsImmutable == [][C22_Step]_vars

\* A success was the receiver of and_then and of a hook; and_then delivered a
\* Result with another context to the next wrapper.
C22_Witness ==
  /\ pst[0] = "fulfilled" /\ pval[0].isSuccess
  /\ HookCalls(0, 1) # {}
  /\ ast[0] = "fulfilled"
  /\ aval[0].context # pval[0].context
  /\ pst[1] = "fulfilled" /\ pval[1] = aval[0]

\* The steps before n whose returned Result carries the key.
C23_Definers(n, key) == {k \in 0..(n - 1) : key \in DOMAIN fnout[k].val.context}

\* The latest of a set of steps.
C23_Latest(S) == CHOOSE k \in S : \A j \in S : j <= k

\* C23: along a chain of and_then steps whose callbacks all returned Results,
\* the context the chain ends with has every key the initial Result or a
\* returned Result carried, each with the value of the latest step that carried
\* it; a use case run twice leaves the later run's Context under its name.
C23_ContextAccumulates ==
  \A n \in 1..MaxChain :
    (\A k \in 0..(n - 1) : Returned(k) /\ pst[k + 1] = "fulfilled") =>
      LET final == pval[n].context IN
        /\ DOMAIN final = DOMAIN pval[0].context
                            \cup UNION {DOMAIN fnout[k].val.context : k \in 0..(n - 1)}
        /\ \A key \in DOMAIN final :
             final[key] = IF C23_Definers(n, key) = {} THEN pval[0].context[key]
                          ELSE fnout[C23_Latest(C23_Definers(n, key))].val.context[key]

\* The use case ran, a first step returned a Result with the keys x and y, and a
\* second step ran the use case again on another input: the chain ends with x,
\* y and the second run's Context.
C23_Witness ==
  /\ origin = "usecase"
  /\ Returned(0) /\ Returned(1) /\ pst[2] = "fulfilled"
  /\ getInput(pval[0].context[ClassName]) = Params
  /\ getInput(pval[2].context[ClassName]) = JsNumber(1)
  /\ DOMAIN pval[2].context = {"x", "y", ClassName}

\* C24: on one wrapper the reactions run in the order of their registration: a
\* hook registered before and_then was called on the wrapper has run, and was
\* invoked if it applies, before the callback of and_then is invoked; of two
\* hooks on one wrapper the one registered first runs first.
C24_RegistrationOrder ==
  \A k \in Wrappers : \A i \in 1..Len(hooks[k]) :
    /\ \A j \in 1..Len(hooks[k]) :
         i < j => /\ j \in hookDone[k] => i \in hookDone[k]
                  /\ \A n \in HookCalls(k, i), m \in HookCalls(k, j) : n < m
    /\ (k \in Steps /\ ~hooks[k][i].chained) =>
         /\ FnCalls(k) # {} => i \in hookDone[k]
         /\ \A n \in HookCalls(k, i), m \in FnCalls(k) : n < m

\* Two hooks and then and_then were registered on the second wrapper while its
\* promise was pending; both hooks and the callback were invoked.
C24_Witness ==
  /\ Len(hooks[1]) = 2
  /\ ~hooks[1][1].chained /\ ~hooks[1][2].chained
  /\ HookCalls(1, 1) # {} /\ HookCalls(1, 2) # {}
  /\ FnCalls(1) # {}

\* C25: a wrapper whose promise has rejected never has the callback of and_then
\* nor a hook invoked on it, and the wrapper and_then returned on it, once
\* settled, has rejected with the same reason; it is not fulfilled with a
\* Result.
C25_RejectionPassedOn ==
  \A k \in Wrappers :
    pst[k] = "rejected" =>
      /\ \A i \in 1..Len(hooks[k]) : HookCalls(k, i) = {}
      /\ k \in Steps =>
           /\ FnCalls(k) = {}
           /\ fnst[k] = "notInvoked"
           /\ pst[k + 1] \in {"none", "pending", "rejected"}
           /\ pst[k + 1] = "rejected" => pval[k + 1] = pval[k]

\* The static call on UseCase itself gave a rejected wrapper, and_then on it gave
\* a wrapper rejected with the same Error, and a hook registered on that wrapper
\* has had its reaction passed over: nothing was invoked.
C25_Witness ==
  /\ origin = "abstract"
  /\ pst[0] = "rejected" /\ pval[0] = AbstractError
  /\ pst[1] = "rejected" /\ pval[1] = AbstractError
  /\ Len(hooks[1]) = 1 /\ 1 \in hookDone[1]
  /\ calls = << >>

====
